---- MODULE Spec2Model ----
(***************************************************************************)
(* Model of the two notebooks of the guitar classifier:                    *)
(*   "Prepare dataset"  : label bootstrap, load-and-resize, split, save    *)
(*   logistic regression: load, reshape, gradient descent, evaluation      *)
(* The notebooks share no runtime state; they communicate through the      *)
(* files labels.csv and dataset.h5.                                        *)
(***************************************************************************)
EXTENDS Integers, Sequences, FiniteSets, TLC

VARIABLES
    pc,                      \* which notebook cell runs next
    dir_files,               \* the files present in images_dir
    labels_csv,              \* contents of labels.csv, or Absent
    data,                    \* pd.read_csv('./labels.csv')
    images,                  \* image tensor, leading axis as a sequence
    labels,                  \* label vector
    images_count,
    training_examples_count,
    test_examples_count,
    training_set_x,
    training_set_y,
    test_set_x,
    test_set_y,
    dataset_h5,              \* contents of dataset.h5, or Absent
    label_runs,              \* executions of the label cell so far
    \* logistic regression notebook
    training_set_x_input, training_set_y_input,
    test_set_x_input, test_set_y_input,
    n, m_train, m_test,
    X_train, y_train, X_test, y_test,
    iterations, learning_rate,
    W, b, costs, i, J,
    y_train_predictions, y_test_predictions,
    train_accuracy, test_accuracy,
    \* array objects and the calls of binarize
    heap,                    \* the array objects; an object's identity is its index
    caller_A,                \* the object a caller's name A is bound to, 0 if none
    calls                    \* the calls of binarize that have returned

prepVars == <<dir_files, labels_csv, data, images, labels, images_count,
              training_examples_count, test_examples_count,
              training_set_x, training_set_y, test_set_x, test_set_y>>

inputVars == <<training_set_x_input, training_set_y_input,
               test_set_x_input, test_set_y_input>>

shapeVars == <<n, m_train, m_test, X_train, y_train, X_test, y_test>>

loopVars == <<iterations, learning_rate, W, b, costs, i, J>>

evalVars == <<y_train_predictions, y_test_predictions, train_accuracy, test_accuracy>>

callVars == <<heap, caller_A, calls>>

trainVars == <<inputVars, shapeVars, loopVars, evalVars, callVars>>

vars == <<pc, prepVars, dataset_h5, label_runs, trainVars>>

----------------------------------------------------------------------------
(* Bounds *)

MaxFiles == 3          \* files that may appear in images_dir (Spec)
MaxImagesCount == 91   \* rows of labels.csv in the split-size runs (SpecSizes)
MaxLabelRuns == 3      \* executions of the label cell that are followed

----------------------------------------------------------------------------
(* Generic helpers *)

\* a file that does not exist; a name not yet bound by any cell
Absent == [exists |-> FALSE]
Unbound == <<>>

\* all orders in which a finite set can be enumerated
Permutations_(S) ==
    {p \in [1..Cardinality(S) -> S] : \A a, c \in 1..Cardinality(S) : p[a] = p[c] => a = c}

----------------------------------------------------------------------------
(* IEEE-754 double arithmetic of  int(0.7 * images_count).                 *)
(* A significand is a sequence of bits, least significant first.           *)

SignificandBits == 53

\* 0.7 as a double is 0x1.6666666666666p-1 = 0x16666666666666 * 2^-53
split_ratio_sig ==
    [k \in 1..SignificandBits |->
        IF k = SignificandBits THEN 1
        ELSE IF (k - 1) % 4 \in {1, 2} THEN 1 ELSE 0]

RECURSIVE NatBits(_)
NatBits(c) == IF c = 0 THEN <<>> ELSE <<c % 2>> \o NatBits(c \div 2)

RECURSIVE BitsToNat(_)
BitsToNat(bs) == IF bs = <<>> THEN 0 ELSE Head(bs) + 2 * BitsToNat(Tail(bs))

\* exact product of a bit string and a small natural number
RECURSIVE MulSmall(_, _, _)
MulSmall(bs, c, carry) ==
    IF bs = <<>> THEN NatBits(carry)
    ELSE LET t == Head(bs) * c + carry
         IN  <<t % 2>> \o MulSmall(Tail(bs), c, t \div 2)

RECURSIVE BitsInc(_)
BitsInc(bs) ==
    IF bs = <<>> THEN <<1>>
    ELSE IF Head(bs) = 0 THEN <<1>> \o Tail(bs)
    ELSE <<0>> \o BitsInc(Tail(bs))

\* round an exact product to 53 significant bits, ties to even;
\* the result is [sig |-> bits, shift |-> dropped low bits]
RoundToDouble(bs) ==
    LET L == Len(bs)
        d == L - SignificandBits
    IN  IF d <= 0 THEN [sig |-> bs, shift |-> 0]
        ELSE LET kept  == SubSeq(bs, d + 1, L)
                 guard == bs[d]
                 sticky == \E k \in 1..(d - 1) : bs[k] = 1
                 up == guard = 1 /\ (sticky \/ kept[1] = 1)
             IN  [sig |-> IF up THEN BitsInc(kept) ELSE kept, shift |-> d]

\* int(0.7 * c): the double product, truncated towards zero
IntOfSplitRatioTimes(c) ==
    IF c = 0 THEN 0
    ELSE LET r == RoundToDouble(MulSmall(split_ratio_sig, c, 0))
             frac == SignificandBits - r.shift   \* bits after the binary point
         IN  BitsToNat(SubSeq(r.sig, frac + 1, Len(r.sig)))

----------------------------------------------------------------------------
(* Floating-point numbers of the logistic regression notebook.             *)
(* A float is an integer count of 1/Scale units between -FloatMax and      *)
(* FloatMax, or one of the special values inf, -inf, nan.  Results are     *)
(* rounded to the nearest unit (ties to even) and overflow to +-inf.       *)

Scale == 1000
MaxMagnitude == 1000                    \* largest finite value, in whole units
FloatMax == MaxMagnitude * Scale
inf == FloatMax + 1
nan == FloatMax + 2

Zero == 0
One == Scale
Half == Scale \div 2
Hundred == 100 * Scale
Ln2 == 693                              \* ln 2 = 0.693147...

isfinite(x) == x >= -FloatMax /\ x <= FloatMax
isnan(x) == x = nan
Sign(x) == IF x < 0 THEN -1 ELSE IF x = 0 THEN 0 ELSE 1
Magnitude(x) == IF x < 0 THEN -x ELSE x

\* an exact result brought into range
Overflowed(v) == IF v > FloatMax THEN inf ELSE IF v < -FloatMax THEN -inf ELSE v

\* num / den for num >= 0, den > 0, rounded to nearest, ties to even
RoundDiv(num, den) ==
    LET q == num \div den
        r == num % den
    IN  IF 2 * r > den \/ (2 * r = den /\ q % 2 = 1) THEN q + 1 ELSE q

FromInt(v) == Overflowed(v * Scale)

FNeg(x) == IF isnan(x) THEN nan ELSE -x

FAdd(x, y) ==
    IF isnan(x) \/ isnan(y) THEN nan
    ELSE IF ~isfinite(x) /\ ~isfinite(y) THEN (IF x = y THEN x ELSE nan)
    ELSE IF ~isfinite(x) THEN x
    ELSE IF ~isfinite(y) THEN y
    ELSE Overflowed(x + y)

FSub(x, y) == FAdd(x, FNeg(y))

FMul(x, y) ==
    IF isnan(x) \/ isnan(y) THEN nan
    ELSE IF ~isfinite(x) \/ ~isfinite(y)
         THEN (IF x = 0 \/ y = 0 THEN nan ELSE Sign(x) * Sign(y) * inf)
    ELSE LET mx == Magnitude(x)
             my == Magnitude(y)
             hi == (mx \div Scale) * my           \* whole units of x times y
             lo == (mx % Scale) * my              \* fraction of x times y
             q  == hi + (lo \div Scale)
             r  == lo % Scale
             mag == IF 2 * r > Scale \/ (2 * r = Scale /\ q % 2 = 1) THEN q + 1 ELSE q
         IN  Overflowed(Sign(x) * Sign(y) * mag)

FDiv(x, y) ==
    IF isnan(x) \/ isnan(y) THEN nan
    ELSE IF ~isfinite(x) /\ ~isfinite(y) THEN nan
    ELSE IF ~isfinite(y) THEN 0
    ELSE IF y = 0 THEN (IF x = 0 THEN nan ELSE Sign(x) * inf)
    ELSE IF ~isfinite(x) THEN Sign(x) * Sign(y) * inf
    ELSE Overflowed(Sign(x) * Sign(y) * RoundDiv(Magnitude(x) * Scale, Magnitude(y)))

FAbs(x) == IF isnan(x) THEN nan ELSE Magnitude(x)

\* variant: x >= y
FGreater_or_equal(x, y) == ~isnan(x) /\ ~isnan(y) /\ x >= y

\* x > y; every comparison with nan is False
FGreater(x, y) == ~isnan(x) /\ ~isnan(y) /\ x > y

\* e^k for the whole numbers k whose power is finite
ExpWhole == <<2718, 7389, 20086, 54598, 148413, 403429>>

\* e^t for 0 <= t < 1 by its power series, term after term
RECURSIVE ExpSeries(_, _, _)
ExpSeries(t, term, k) ==
    IF term = 0 THEN 0
    ELSE term + ExpSeries(t, RoundDiv(term * t, Scale * k), k + 1)

\* np.exp
RECURSIVE exp(_)
exp(x) ==
    IF isnan(x) THEN nan
    ELSE IF x = inf THEN inf
    ELSE IF x = -inf THEN 0
    ELSE IF x < 0 THEN FDiv(One, exp(-x))
    ELSE LET whole == x \div Scale
             frac  == ExpSeries(x % Scale, One, 1)
         IN  IF whole = 0 THEN frac
             ELSE IF whole > Len(ExpWhole) THEN inf
             ELSE FMul(ExpWhole[whole], frac)

\* ln y for 3/4 <= y < 3/2:  2 atanh((y - 1)/(y + 1)), at ten times the
\* resolution, rounded back
LogNearOne(y) ==
    LET fine == 10 * Scale
        u  == ((y - One) * fine) \div (y + One)
        u2 == (u * u) \div fine
        u3 == (u * u2) \div fine
        u5 == (u3 * u2) \div fine
        s  == 2 * (u + u3 \div 3 + u5 \div 5)
    IN  Sign(s) * RoundDiv(Magnitude(s), 10)

\* ln y for finite y > 0, halving or doubling y into [3/4, 3/2)
RECURSIVE LogPositive(_)
LogPositive(y) ==
    IF 4 * y < 3 * One THEN LogPositive(2 * y) - Ln2
    ELSE IF 2 * y >= 3 * One THEN LogPositive(RoundDiv(y, 2)) + Ln2
    ELSE LogNearOne(y)

\* np.log
log(x) ==
    IF isnan(x) \/ x < 0 THEN nan
    ELSE IF x = 0 THEN -inf
    ELSE IF x = inf THEN inf
    ELSE LogPositive(x)

----------------------------------------------------------------------------
(* Prepare dataset notebook *)

FileNames == 1..MaxFiles

\* skimage.transform.resize(np.array(plt.imread(path)), (100, 100)):
\* the resized image of one file, identified by the file it was read from
imread_resize(filename) == [image_of |-> filename]

\* df built by the label cell from one listing of the directory
BootstrapFrame(listing) ==
    [k \in 1..Len(listing) |-> [file_name |-> listing[k], is_guitar |-> 0]]

\* df.to_csv: header plus one line per row, with the index column
to_csv(df) ==
    [header |-> <<"", "file_name", "is_guitar">>,
     rows   |-> [k \in 1..Len(df) |-> <<k - 1, df[k].file_name, df[k].is_guitar>>]]

\* pd.read_csv: one record per line, the unnamed index column included
read_csv(csv) ==
    [k \in 1..Len(csv.rows) |->
        [unnamed0  |-> csv.rows[k][1],
         file_name |-> csv.rows[k][2],
         is_guitar |-> csv.rows[k][3]]]

\* for filename in data.file_name: images = np.append([image], images, axis=0)
\* every pass puts the new image in front of those accumulated so far, so
\* after the loop the k-th image from the front is that of the k-th last name
ImagesLoop(file_names, acc) ==
    [k \in 1..Len(file_names) |->
        imread_resize(file_names[Len(file_names) + 1 - k])] \o acc

\* variant: the label loop appends at the end instead of the front
LabelsLoop_appending(is_guitars, acc) ==
    acc \o [k \in 1..Len(is_guitars) |-> FromInt(is_guitars[k])]

\* for is_guitar in data.is_guitar: labels = np.append([is_guitar], labels)
\* np.append without axis flattens: a 1-d float vector, newest value in front
LabelsLoop(is_guitars, acc) ==
    [k \in 1..Len(is_guitars) |-> FromInt(is_guitars[Len(is_guitars) + 1 - k])] \o acc

\* variant: the second part starts one element late
np_split_dropping(ary, k) == <<SubSeq(ary, 1, k), SubSeq(ary, k + 2, Len(ary))>>

\* np.split(ary, [k]) -> (ary[:k], ary[k:])
np_split(ary, k) == <<SubSeq(ary, 1, k), SubSeq(ary, k + 1, Len(ary))>>

Column(frame, name) == [k \in 1..Len(frame) |-> frame[k][name]]

\* variant: the label cell without the os.path.exists test
LabelCellWrites_always(csv, listing) == to_csv(BootstrapFrame(listing))

\* what labels.csv holds after the label cell, given the listing of images_dir
LabelCellWrites(csv, listing) ==
    IF csv = Absent THEN to_csv(BootstrapFrame(listing)) ELSE csv

\* os.listdir order is unspecified: any enumeration of the directory
LabelCell ==
    /\ pc = "label"
    /\ label_runs < MaxLabelRuns
    /\ \E listing \in Permutations_(dir_files) :
          labels_csv' = LabelCellWrites(labels_csv, listing)
    /\ label_runs' = label_runs + 1
    /\ UNCHANGED <<pc, dir_files, data, images, labels, images_count,
                   training_examples_count, test_examples_count,
                   training_set_x, training_set_y, test_set_x, test_set_y,
                   dataset_h5, trainVars>>

\* the user puts the appropriate value in the is_guitar column of one row
EditLabel ==
    /\ pc = "label"
    /\ labels_csv # Absent
    /\ \E k \in 1..Len(labels_csv.rows), v \in {0, 1} :
          /\ labels_csv.rows[k][3] # v
          /\ labels_csv' = [labels_csv EXCEPT !.rows[k][3] = v]
    /\ UNCHANGED <<pc, dir_files, data, images, labels, images_count,
                   training_examples_count, test_examples_count,
                   training_set_x, training_set_y, test_set_x, test_set_y,
                   dataset_h5, label_runs, trainVars>>

\* a new image is copied into images_dir
AddFile ==
    /\ pc = "label"
    /\ \E f \in FileNames \ dir_files : dir_files' = dir_files \cup {f}
    /\ UNCHANGED <<pc, labels_csv, data, images, labels, images_count,
                   training_examples_count, test_examples_count,
                   training_set_x, training_set_y, test_set_x, test_set_y,
                   dataset_h5, label_runs, trainVars>>

LoadCell ==
    /\ pc = "label"
    /\ labels_csv # Absent
    /\ LET d == read_csv(labels_csv)
       IN  /\ data' = d
           /\ images' = ImagesLoop(Column(d, "file_name"), <<>>)
           /\ labels' = LabelsLoop(Column(d, "is_guitar"), <<>>)
    /\ pc' = "split"
    /\ UNCHANGED <<dir_files, labels_csv, images_count,
                   training_examples_count, test_examples_count,
                   training_set_x, training_set_y, test_set_x, test_set_y,
                   dataset_h5, label_runs, trainVars>>

SplitCell ==
    /\ pc = "split"
    /\ LET cnt == Len(images)
           trn == IntOfSplitRatioTimes(cnt)
       IN  /\ images_count' = cnt
           /\ training_examples_count' = trn
           /\ test_examples_count' = cnt - trn
           /\ training_set_x' = np_split(images, trn)[1]
           /\ test_set_x' = np_split(images, trn)[2]
           /\ training_set_y' = np_split(labels, trn)[1]
           /\ test_set_y' = np_split(labels, trn)[2]
    /\ pc' = "save"
    /\ UNCHANGED <<dir_files, labels_csv, data, images, labels, dataset_h5,
                   label_runs, trainVars>>

SaveCell ==
    /\ pc = "save"
    /\ dataset_h5' = [training_set_x |-> training_set_x,
                      training_set_y |-> training_set_y,
                      test_set_x |-> test_set_x,
                      test_set_y |-> test_set_y]
    /\ pc' = "saved"
    /\ UNCHANGED <<prepVars, label_runs, trainVars>>

\* no cell of the logistic regression notebook has run
TrainUnbound ==
    /\ training_set_x_input = Unbound
    /\ training_set_y_input = Unbound
    /\ test_set_x_input = Unbound
    /\ test_set_y_input = Unbound
    /\ n = 0
    /\ m_train = 0
    /\ m_test = 0
    /\ X_train = Unbound
    /\ y_train = Unbound
    /\ X_test = Unbound
    /\ y_test = Unbound
    /\ iterations = 0
    /\ learning_rate = 0
    /\ W = Unbound
    /\ b = 0
    /\ costs = Unbound
    /\ i = 0
    /\ J = 0
    /\ y_train_predictions = Unbound
    /\ y_test_predictions = Unbound
    /\ train_accuracy = 0
    /\ test_accuracy = 0

\* no array object is followed and binarize has not been called
CallsIdle ==
    /\ heap = <<>>
    /\ caller_A = 0
    /\ calls = <<>>

PrepInit ==
    /\ pc = "label"
    /\ dir_files \in SUBSET FileNames
    /\ labels_csv = Absent
    /\ data = Unbound
    /\ images = Unbound
    /\ labels = Unbound
    /\ images_count = 0
    /\ training_examples_count = 0
    /\ test_examples_count = 0
    /\ training_set_x = Unbound
    /\ training_set_y = Unbound
    /\ test_set_x = Unbound
    /\ test_set_y = Unbound
    /\ dataset_h5 = Absent
    /\ label_runs = 0
    /\ TrainUnbound
    /\ CallsIdle

Init == PrepInit

Next == LabelCell \/ EditLabel \/ AddFile \/ LoadCell \/ SplitCell \/ SaveCell

Spec == Init /\ [][Next]_vars

----------------------------------------------------------------------------
(* Split-size runs: labels.csv as bootstrapped for images_count files,     *)
(* no label edited yet; the cells after the label cell run top to bottom.  *)

SizesInit ==
    /\ pc = "label"
    /\ \E c \in 0..MaxImagesCount :
          /\ dir_files = 1..c
          /\ labels_csv = to_csv(BootstrapFrame([k \in 1..c |-> k]))
    /\ data = Unbound
    /\ images = Unbound
    /\ labels = Unbound
    /\ images_count = 0
    /\ training_examples_count = 0
    /\ test_examples_count = 0
    /\ training_set_x = Unbound
    /\ training_set_y = Unbound
    /\ test_set_x = Unbound
    /\ test_set_y = Unbound
    /\ dataset_h5 = Absent
    /\ label_runs = 0
    /\ TrainUnbound
    /\ CallsIdle

SizesNext == LoadCell \/ SplitCell \/ SaveCell

SpecSizes == SizesInit /\ [][SizesNext]_vars

----------------------------------------------------------------------------
(* 2-d arrays: [r |-> rows, c |-> columns, v |-> row-major entries]        *)

\* (concatenation with the empty sequence leaves a sequence as it is; it
\* makes TLC compute the entries once instead of at every use)
Array(rows, cols, entries) ==
    [r |-> rows, c |-> cols,
     v |-> [p \in 1..rows |-> entries[p] \o <<>>] \o <<>>]

zeros(rows, cols) ==
    Array(rows, cols, [p \in 1..rows |-> [q \in 1..cols |-> Zero]])

\* M.T
Transpose(M) ==
    Array(M.c, M.r, [p \in 1..M.c |-> [q \in 1..M.r |-> M.v[q][p]]])

\* sum of a sequence of floats, left to right
RECURSIVE FSum(_)
FSum(xs) == IF xs = <<>> THEN Zero ELSE FAdd(FSum(SubSeq(xs, 1, Len(xs) - 1)), xs[Len(xs)])

\* np.dot(P, Q) for P of shape (r, t) and Q of shape (t, c)
dot(P, Q) ==
    Array(P.r, Q.c,
          [p \in 1..P.r |-> [q \in 1..Q.c |->
              FSum([t \in 1..P.c |-> FMul(P.v[p][t], Q.v[t][q])])]])

\* numpy broadcasting of two axis lengths
BroadcastDim(p, q) == IF p = 1 THEN q ELSE p

\* P - Q elementwise with broadcasting over axes of length 1
Minus(P, Q) ==
    Array(BroadcastDim(P.r, Q.r), BroadcastDim(P.c, Q.c),
          [p \in 1..BroadcastDim(P.r, Q.r) |-> [q \in 1..BroadcastDim(P.c, Q.c) |->
              FSub(P.v[IF P.r = 1 THEN 1 ELSE p][IF P.c = 1 THEN 1 ELSE q],
                   Q.v[IF Q.r = 1 THEN 1 ELSE p][IF Q.c = 1 THEN 1 ELSE q])]])

\* scalar * M, M + scalar
Scaled(x, M) ==
    Array(M.r, M.c, [p \in 1..M.r |-> [q \in 1..M.c |-> FMul(x, M.v[p][q])]])

Shifted(M, x) ==
    Array(M.r, M.c, [p \in 1..M.r |-> [q \in 1..M.c |-> FAdd(M.v[p][q], x)]])

\* np.abs(M)
Absolute(M) ==
    Array(M.r, M.c, [p \in 1..M.r |-> [q \in 1..M.c |-> FAbs(M.v[p][q])]])

\* np.sum(M, axis=1) of a one-row array: the one sum
SumRow(M) == FSum(M.v[1])

\* np.mean(M): the sum of all entries over their number (nan when empty)
Mean(M) ==
    FDiv(FSum([p \in 1..M.r |-> FSum(M.v[p])]), FromInt(M.r * M.c))

AllFinite(M) == \A p \in 1..M.r, q \in 1..M.c : isfinite(M.v[p][q])

----------------------------------------------------------------------------
(* Logistic regression notebook *)

\* 1 / (1 + np.exp(-z)), elementwise
sigmoid(Z) ==
    Array(Z.r, Z.c,
          [p \in 1..Z.r |-> [q \in 1..Z.c |->
              FDiv(One, FAdd(One, exp(FNeg(Z.v[p][q]))))]])

predict(Wp, Xp, bp) == sigmoid(Shifted(dot(Transpose(Wp), Xp), bp))

\* loss = -Y * np.log(A) - (1 - Y) * np.log(1 - A), for Y and A of shape (1, m)
Loss(Y, A) ==
    Array(1, Y.c,
          <<[q \in 1..Y.c |->
              FSub(FMul(FNeg(Y.v[1][q]), log(A.v[1][q])),
                   FMul(FSub(One, Y.v[1][q]), log(FSub(One, A.v[1][q]))))]>>)

\* 1 / m for the Python int m = Y.shape[1]; raises ZeroDivisionError for m = 0
RaisesZeroDivision(Y) == Y.c = 0
OneOver(cnt) == FDiv(One, FromInt(cnt))

\* variant: the summed loss, not its mean
cost_summed(Y, A) == SumRow(Loss(Y, A))

cost(Y, A) == FMul(OneOver(Y.c), SumRow(Loss(Y, A)))

dw(Xp, A, Y) == Scaled(OneOver(Y.c), dot(Xp, Transpose(Minus(A, Y))))

\* variant: the bias gradient taken from the loss instead of A - Y
db_from_loss(A, Y) == FMul(OneOver(Y.c), SumRow(Loss(Y, A)))

db(A, Y) == FMul(OneOver(Y.c), SumRow(Minus(A, Y)))

\* variant: 0 where the entry exceeds 0.5, else 1
binarize_inverted(A) ==
    [A EXCEPT !.v[1] = [q \in 1..A.c |->
                          IF FGreater(A.v[1][q], Half) THEN Zero ELSE One]]

\* for i in range(A.shape[1]): A[0,i] = 1 if A[0,i] > 0.5 else 0
\* (the values that the array passed holds when the loop ends)
binarize(A) ==
    [A EXCEPT !.v[1] = [q \in 1..A.c |->
                          IF FGreater(A.v[1][q], Half) THEN One ELSE Zero]]

\* 100 - np.mean(np.abs(predictions - y)) * 100
accuracy(predictions, y) ==
    FSub(Hundred, FMul(Mean(Absolute(Minus(predictions, y))), Hundred))

(* calls on array objects: h is the sequence of objects before the call;   *)
(* the result is [heap |-> the objects after it, returns |-> the object    *)
(* that the call returns]                                                  *)

\* predict(W, X, b): np.dot, + b, np.exp and / each allocate their result,
\* so the array returned is a new object
predict_call(h, wref, xref, bp) ==
    [heap |-> Append(h, predict(h[wref], h[xref], bp)), returns |-> Len(h) + 1]

\* variant: binarize works on a copy of its argument and returns the copy
binarize_call_copying(h, ref) ==
    [heap |-> Append(h, binarize(h[ref])), returns |-> Len(h) + 1]

\* binarize(A): A[0,i] = ... writes into the object passed; return A
\* returns that object
binarize_call(h, ref) ==
    [heap |-> [h EXCEPT ![ref] = binarize(h[ref])], returns |-> ref]

\* what is kept of a call of binarize: the object given, its contents at
\* the call, the object returned
CallRecord(h, ref, result) ==
    [given |-> ref, before |-> h[ref], returned |-> result.returns]

\* the arrays that the names of the notebook are bound to when the
\* evaluation cell starts; an array's position is its identity
NotebookArrays == <<"W", "X_train", "X_test", "y_train", "y_test">>
ObjectOf(name) == CHOOSE k \in 1..Len(NotebookArrays) : NotebookArrays[k] = name

(* shapes and inputs *)

ImgHeight == 1
ImgWidth == 2
ImgChannels == 1
MaxExamples == 3        \* images in the dataset file (SpecTrain)
MaxIterations == 101    \* largest iteration count tried (SpecTrain)
MaxExtremeExamples == 5 \* images in the dataset file (SpecExtreme)
MaxExtremeIterations == 3
RoundingSlack == 2       \* units in the last place allowed to rounding
CostEvery == 100

Pixels == {Zero, 255 * Scale}           \* 8-bit intensities: black, white
ExtremePixels == {Zero, FloatMax}       \* up to the largest finite float
LabelValues == {Zero, One}

\* images of one intensity throughout
SampleImages(pixels) ==
    {[h \in 1..ImgHeight |-> [w \in 1..ImgWidth |-> [ch \in 1..ImgChannels |-> px]]] :
        px \in pixels}

IterationChoices == {0, 1, CostEvery, MaxIterations}
LearningRates == {Zero, 10}             \* 0 and 0.01

\* the dataset files that a split of cnt images can leave behind
DatasetsOf(cnt, pixels) ==
    LET trn == IntOfSplitRatioTimes(cnt)
    IN  {[training_set_x |-> tx, training_set_y |-> ty,
          test_set_x |-> sx, test_set_y |-> sy] :
            tx \in [1..trn -> SampleImages(pixels)], ty \in [1..trn -> LabelValues],
            sx \in [1..(cnt - trn) -> SampleImages(pixels)],
            sy \in [1..(cnt - trn) -> LabelValues]}

\* x.reshape(m, n): the pixels of one image in row-major order
Flatten(image) ==
    [q \in 1..(ImgHeight * ImgWidth * ImgChannels) |->
        image[((q - 1) \div (ImgWidth * ImgChannels)) + 1]
             [(((q - 1) \div ImgChannels) % ImgWidth) + 1]
             [((q - 1) % ImgChannels) + 1]]

\* x_input.reshape(m, n).T
FeatureMatrix(x_input, cnt, features) ==
    Transpose(Array(cnt, features, [p \in 1..cnt |-> Flatten(x_input[p])]))

\* y_input.reshape(m, 1)
ColumnVector(y_input, cnt) ==
    Array(cnt, 1, [p \in 1..cnt |-> <<y_input[p]>>])

(* cells *)

LoadDatasetCell ==
    /\ pc = "t_load"
    /\ training_set_x_input' = dataset_h5.training_set_x
    /\ training_set_y_input' = dataset_h5.training_set_y
    /\ test_set_x_input' = dataset_h5.test_set_x
    /\ test_set_y_input' = dataset_h5.test_set_y
    /\ pc' = "t_reshape"
    /\ UNCHANGED <<prepVars, dataset_h5, label_runs, callVars, shapeVars, loopVars, evalVars>>

ReshapeCell ==
    /\ pc = "t_reshape"
    /\ LET features == ImgHeight * ImgWidth * ImgChannels
           mtr == Len(training_set_x_input)
           mte == Len(test_set_x_input)
       IN  /\ n' = features
           /\ m_train' = mtr
           /\ m_test' = mte
           /\ X_train' = FeatureMatrix(training_set_x_input, mtr, features)
           /\ y_train' = ColumnVector(training_set_y_input, mtr)
           /\ X_test' = FeatureMatrix(test_set_x_input, mte, features)
           /\ y_test' = ColumnVector(test_set_y_input, mte)
    /\ pc' = "t_train"
    /\ UNCHANGED <<prepVars, dataset_h5, label_runs, callVars, inputVars, loopVars, evalVars>>

\* the head of the training cell; iterations and learning_rate are the
\* constants written there, edited by hand before the run
TrainStart ==
    /\ pc = "t_train"
    /\ UNCHANGED <<iterations, learning_rate>>
    /\ W' = zeros(n, 1)
    /\ b' = Zero
    /\ costs' = <<>>
    /\ i' = 0
    /\ J' = J
    /\ pc' = "t_loop"
    /\ UNCHANGED <<prepVars, dataset_h5, label_runs, callVars, inputVars, shapeVars, evalVars>>

\* variant: the cost is recorded at the end of every block of 100 passes
RecordsCost_late(it) == it % CostEvery = CostEvery - 1

\* if i % 100 == 0
RecordsCost(it) == it % CostEvery = 0

\* variant: the step is not scaled by the learning rate
descend_unscaled(Wp, rate, grad) == Minus(Wp, grad)

\* W - learning_rate * _dw
descend(Wp, rate, grad) == Minus(Wp, Scaled(rate, grad))

\* one pass of the loop body
Iterate ==
    /\ pc = "t_loop"
    /\ i < iterations
    /\ IF RaisesZeroDivision(Transpose(y_train))
       THEN /\ pc' = "t_error"
            /\ UNCHANGED loopVars
       ELSE LET A == predict(W, X_train, b)
                Jn == cost(Transpose(y_train), A)
                dw_ == dw(X_train, A, Transpose(y_train))
                db_ == db(A, Transpose(y_train))
            IN  /\ J' = Jn
                /\ costs' = IF RecordsCost(i) THEN Append(costs, Jn) ELSE costs
                /\ W' = descend(W, learning_rate, dw_)
                /\ b' = FSub(b, FMul(learning_rate, db_))
                /\ i' = i + 1
                /\ pc' = pc
                /\ UNCHANGED <<iterations, learning_rate>>
    /\ UNCHANGED <<prepVars, dataset_h5, label_runs, callVars, inputVars, shapeVars, evalVars>>

\* the evaluation cell, run once the loop has ended; b is a number, not an
\* array, and no call can write into it
EvaluateCell ==
    /\ pc = "t_loop"
    /\ i = iterations
    /\ LET h0 == <<W, X_train, X_test, y_train, y_test>>
           p1 == predict_call(h0, ObjectOf("W"), ObjectOf("X_train"), b)
           c1 == binarize_call(p1.heap, p1.returns)
           p2 == predict_call(c1.heap, ObjectOf("W"), ObjectOf("X_test"), b)
           c2 == binarize_call(p2.heap, p2.returns)
           hf == c2.heap
       IN  /\ heap' = hf
           /\ calls' = calls \o <<CallRecord(p1.heap, p1.returns, c1),
                                  CallRecord(p2.heap, p2.returns, c2)>>
           /\ W' = hf[ObjectOf("W")]
           /\ X_train' = hf[ObjectOf("X_train")]
           /\ X_test' = hf[ObjectOf("X_test")]
           /\ y_train' = hf[ObjectOf("y_train")]
           /\ y_test' = hf[ObjectOf("y_test")]
           /\ y_train_predictions' = hf[c1.returns]
           /\ y_test_predictions' = hf[c2.returns]
           /\ train_accuracy' = accuracy(hf[c1.returns], hf[ObjectOf("y_train")])
           /\ test_accuracy' = accuracy(hf[c2.returns], hf[ObjectOf("y_test")])
    /\ pc' = "t_done"
    /\ UNCHANGED <<prepVars, dataset_h5, label_runs, inputVars, n, m_train, m_test,
                   iterations, learning_rate, b, costs, i, J, caller_A>>

\* the Prepare dataset notebook is not running
PrepIdle ==
    /\ dir_files = {}
    /\ labels_csv = Absent
    /\ data = Unbound
    /\ images = Unbound
    /\ labels = Unbound
    /\ images_count = 0
    /\ training_examples_count = 0
    /\ test_examples_count = 0
    /\ training_set_x = Unbound
    /\ training_set_y = Unbound
    /\ test_set_x = Unbound
    /\ test_set_y = Unbound
    /\ label_runs = 0

\* the notebook before its first cell, for one dataset file and one choice
\* of the two constants of the training cell
TrainBegin(datasets, iteration_counts, rates) ==
    /\ pc = "t_load"
    /\ dataset_h5 \in datasets
    /\ PrepIdle
    /\ training_set_x_input = Unbound
    /\ training_set_y_input = Unbound
    /\ test_set_x_input = Unbound
    /\ test_set_y_input = Unbound
    /\ n = 0
    /\ m_train = 0
    /\ m_test = 0
    /\ X_train = Unbound
    /\ y_train = Unbound
    /\ X_test = Unbound
    /\ y_test = Unbound
    /\ iterations \in iteration_counts
    /\ learning_rate \in rates
    /\ W = Unbound
    /\ b = 0
    /\ costs = Unbound
    /\ i = 0
    /\ J = 0
    /\ y_train_predictions = Unbound
    /\ y_test_predictions = Unbound
    /\ train_accuracy = 0
    /\ test_accuracy = 0
    /\ CallsIdle

TrainInit ==
    TrainBegin(UNION {DatasetsOf(cnt, Pixels) : cnt \in 0..MaxExamples},
               IterationChoices, LearningRates)

TrainNext == LoadDatasetCell \/ ReshapeCell \/ TrainStart \/ Iterate \/ EvaluateCell

SpecTrain == TrainInit /\ [][TrainNext]_vars

\* runs at learning rate 0 over intensities up to the largest finite float
ExtremeInit ==
    TrainBegin(UNION {DatasetsOf(cnt, ExtremePixels) : cnt \in 0..MaxExtremeExamples},
               0..MaxExtremeIterations, {Zero})

SpecExtreme == ExtremeInit /\ [][TrainNext]_vars

----------------------------------------------------------------------------
(* binarize on its own: a caller holds a 1 x m matrix under the name A,    *)
(* calls binarize(A) and calls binarize again on what it got back; next to *)
(* it, short runs of the notebook up to its evaluation cell.               *)

MaxColumns == 3             \* columns of the caller's matrix
MaxCalls == 2               \* binarize(binarize(A))
MaxBinarizeExamples == 2    \* images in the dataset file (SpecBinarize)
MaxBinarizeIterations == 2

\* 0, the floats next to 0.5 on either side, 0.5, 1, and the nan that
\* sigmoid returns for a nan argument
Probabilities == {Zero, Half - 1, Half, Half + 1, One, nan}

ProbabilityMatrices ==
    UNION {{Array(1, cols, <<row>>) : row \in [1..cols -> Probabilities]} :
              cols \in 0..MaxColumns}

\* result = binarize(A), then result = binarize(result)
BinarizeCall ==
    /\ pc = "b_call"
    /\ Len(calls) < MaxCalls
    /\ LET arg == IF calls = <<>> THEN caller_A ELSE calls[Len(calls)].returned
           c == binarize_call(heap, arg)
       IN  /\ heap' = c.heap
           /\ calls' = Append(calls, CallRecord(heap, arg, c))
    /\ UNCHANGED <<pc, caller_A, prepVars, dataset_h5, label_runs,
                   inputVars, shapeVars, loopVars, evalVars>>

\* the caller's matrix is the one array object; no notebook cell has run
CallerInit ==
    /\ pc = "b_call"
    /\ PrepIdle
    /\ dataset_h5 = Absent
    /\ TrainUnbound
    /\ \E given \in ProbabilityMatrices : heap = <<given>>
    /\ caller_A = 1
    /\ calls = <<>>

BinarizeInit ==
    \/ CallerInit
    \/ TrainBegin(UNION {DatasetsOf(cnt, Pixels) : cnt \in 0..MaxBinarizeExamples},
                  0..MaxBinarizeIterations, {10})

BinarizeNext ==
    BinarizeCall \/ LoadDatasetCell \/ ReshapeCell \/ TrainStart \/ Iterate \/ EvaluateCell

SpecBinarize == BinarizeInit /\ [][BinarizeNext]_vars

----------------------------------------------------------------------------
(* Properties of the Prepare dataset notebook *)

\* the image and the label of row k (1-based) of the label file as read
RowImage(k) == imread_resize(data[k].file_name)
RowLabel(k) == FromInt(data[k].is_guitar)

FloorRatio(c) == (7 * c) \div 10

WasSplit == pc \in {"save", "saved"}

\* C2: the persisted training partition is rows r_0..r_(floor(0.7N)-1) of the
\* label file in label-file order, the test partition the remaining rows in
\* that order.
C2_TrainIsFirstRowsInFileOrder ==
    pc = "saved" =>
        LET c == Len(data)
            k == FloorRatio(c)
        IN  /\ dataset_h5.training_set_x = [j \in 1..k |-> RowImage(j)]
            /\ dataset_h5.training_set_y = [j \in 1..k |-> RowLabel(j)]
            /\ dataset_h5.test_set_x = [j \in 1..(c - k) |-> RowImage(k + j)]
            /\ dataset_h5.test_set_y = [j \in 1..(c - k) |-> RowLabel(k + j)]

\* xs[j] and ys[j] come from the same row of the label file, for every j
Aligned(xs, ys) ==
    /\ Len(xs) = Len(ys)
    /\ \A j \in 1..Len(xs) :
          \E k \in 1..Len(data) : xs[j] = RowImage(k) /\ ys[j] = RowLabel(k)

\* C3: after ingestion and after the split, in the assembled dataset and in
\* every partition (in memory and persisted), the label at index i is the
\* is_guitar value of the label-file row whose image is at index i.
C3_LabelsAligned ==
    /\ pc \in {"split", "save", "saved"} => Aligned(images, labels)
    /\ WasSplit => /\ Aligned(training_set_x, training_set_y)
                   /\ Aligned(test_set_x, test_set_y)
    /\ pc = "saved" =>
          /\ Aligned(dataset_h5.training_set_x, dataset_h5.training_set_y)
          /\ Aligned(dataset_h5.test_set_x, dataset_h5.test_set_y)

\* three rows with differing labels were ingested, split and saved
C3_Witness ==
    /\ pc = "saved"
    /\ Len(data) = 3
    /\ \E a, c \in 1..Len(data) : RowLabel(a) # RowLabel(c)
    /\ Len(dataset_h5.training_set_y) = 2
    /\ Len(dataset_h5.test_set_y) = 1

\* C4: train_count = floor(7N/10), test_count = N - train_count, the two sum
\* to N, N = 10 gives 7 and 3, and images and labels are cut at that index.
C4_PartitionSizes ==
    WasSplit =>
        /\ images_count = Len(data)
        /\ training_examples_count = FloorRatio(images_count)
        /\ test_examples_count = images_count - training_examples_count
        /\ training_examples_count + test_examples_count = images_count
        /\ images_count = 10 => training_examples_count = 7 /\ test_examples_count = 3
        /\ Len(training_set_x) = training_examples_count
        /\ Len(training_set_y) = training_examples_count
        /\ Len(test_set_x) = test_examples_count
        /\ Len(test_set_y) = test_examples_count

\* C5: train followed by test is exactly the dataset passed to the split,
\* for images and labels, in memory and as persisted; every index of the
\* dataset lies in exactly one partition.
C5_SplitRoundTrip ==
    /\ WasSplit =>
          /\ training_set_x \o test_set_x = images
          /\ training_set_y \o test_set_y = labels
          /\ Len(training_set_x) = Len(training_set_y)
          /\ \A j \in 1..Len(images) :
                (j <= Len(training_set_x)) # (j - Len(training_set_x) \in 1..Len(test_set_x))
    /\ pc = "saved" =>
          /\ dataset_h5.training_set_x \o dataset_h5.test_set_x = images
          /\ dataset_h5.training_set_y \o dataset_h5.test_set_y = labels

\* a three-image dataset with differing labels was split 2 + 1 and saved
C5_Witness ==
    /\ pc = "saved"
    /\ Len(images) = 3
    /\ Len(dataset_h5.training_set_x) = 2
    /\ Len(dataset_h5.test_set_x) = 1
    /\ \E a, c \in 1..Len(labels) : labels[a] # labels[c]

\* C6: a run of the label cell writes labels.csv when it is absent, with one
\* row per file of images_dir and is_guitar = 0 in each, and leaves an
\* existing labels.csv as it is, whatever was edited or added since.
C6_LabelBootstrap ==
    [][label_runs' = label_runs + 1 =>
          IF labels_csv = Absent
          THEN /\ labels_csv' # Absent
               /\ Len(labels_csv'.rows) = Cardinality(dir_files)
               /\ {labels_csv'.rows[k][2] : k \in 1..Len(labels_csv'.rows)} = dir_files
               /\ \A k \in 1..Len(labels_csv'.rows) : labels_csv'.rows[k][3] = 0
          ELSE labels_csv' = labels_csv]_vars

\* the label cell ran again over an edited label file that lists fewer
\* files than images_dir now holds
C6_Witness ==
    /\ label_runs >= 2
    /\ labels_csv # Absent
    /\ \E k \in 1..Len(labels_csv.rows) : labels_csv.rows[k][3] = 1
    /\ Len(labels_csv.rows) < Cardinality(dir_files)

----------------------------------------------------------------------------
(* Properties of the logistic regression notebook *)

LoopEntered == pc \in {"t_loop", "t_done", "t_error"}

Entries(M) == {M.v[p][q] : p \in 1..M.r, q \in 1..M.c}

\* 100 x (1 - (1/m) * sum over j of |p_j - y_j|) for p of shape (1, m) and
\* y of shape (m, 1)
ShareOfCorrect(p, y) ==
    FMul(Hundred,
         FSub(One, FMul(OneOver(y.r),
                        FSum([q \in 1..y.r |-> FAbs(FSub(p.v[1][q], y.v[q][1]))]))))

\* C1: for a partition of m >= 1 examples the reported accuracy is
\* 100 x (1 - (1/m) * sum_j |p_j - y_j|), the percentage of examples whose
\* binarized prediction equals that example's own label; train and test.
C1_AccuracyIsShareOfCorrect ==
    pc = "t_done" =>
        /\ m_train >= 1 => train_accuracy = ShareOfCorrect(y_train_predictions, y_train)
        /\ m_test >= 1 => test_accuracy = ShareOfCorrect(y_test_predictions, y_test)

\* the predictions of the pass that is about to run
Predictions == predict(W, X_train, b)

Degenerate(A) == \E a \in Entries(A) : a = Zero \/ a = One

PassTaken == pc = "t_loop" /\ i' = i + 1

\* C7 as stated: a pass whose cost is non-finite because a prediction is
\* exactly 0 or 1 leaves W and b non-finite.
C7_NonFiniteCostCorruptsParameters ==
    [][(PassTaken /\ ~isfinite(J') /\ Degenerate(Predictions))
          => (~AllFinite(W') /\ ~isfinite(b'))]_vars

\* C7 amended: a pass whose cost is non-finite because a prediction is
\* exactly 0 or 1 still leaves W and b finite (the cost does not enter the
\* update); the loop goes on and records the non-finite cost when
\* i mod 100 = 0.
C7_NonFiniteCostLeavesParametersFinite ==
    [][(PassTaken /\ ~isfinite(J') /\ Degenerate(Predictions))
          => /\ AllFinite(W') /\ isfinite(b')
             /\ pc' = "t_loop"
             /\ i % CostEvery = 0 => costs' = Append(costs, J')]_vars

\* a non-finite cost was recorded at iteration 100 and training ended with
\* finite parameters
C7_Witness ==
    /\ pc = "t_done"
    /\ Len(costs) = 2
    /\ ~isfinite(costs[2])
    /\ AllFinite(W) /\ isfinite(b)

\* the gradient of the first pass (every prediction is 0.5)
FirstGradient == dw(X_train, predict(zeros(n, 1), X_train, Zero), Transpose(y_train))

ParametersAsInitially == W = zeros(n, 1) /\ b = Zero

CeilDiv(x, y) == (x + y - 1) \div y

\* what C9 says of the history, apart from the loop running to its end
HistorySchedule ==
    /\ LoopEntered => /\ i <= iterations
                      /\ Len(costs) = CeilDiv(i, CostEvery)
    /\ pc = "t_done" => i = iterations /\ Len(costs) = CeilDiv(iterations, CostEvery)

\* a pass appends the cost of the parameters it starts from (those after i
\* updates) exactly when i mod 100 = 0, and nothing else changes the history
HistoryStep ==
    /\ PassTaken =>
          costs' = IF i % CostEvery = 0
                   THEN Append(costs, cost(Transpose(y_train), Predictions))
                   ELSE costs
    /\ (LoopEntered /\ ~PassTaken) => costs' = costs

\* C9 as stated: for any T the loop runs exactly T iterations, appends a
\* cost exactly at the iterations i with i mod 100 = 0, ends with ceil(T/100)
\* entries, the k-th being the cost of the parameters after 100 k updates.
C9_CostHistory ==
    /\ [](pc # "t_error" /\ HistorySchedule)
    /\ [][HistoryStep]_vars

\* C9 amended: the same, for a training set that is not empty.
C9_CostHistoryNonEmpty ==
    /\ []((LoopEntered /\ m_train >= 1) => (pc # "t_error" /\ HistorySchedule))
    /\ [][(LoopEntered /\ m_train >= 1) => HistoryStep]_vars

\* a run of 101 iterations ended with two different costs recorded
C9_Witness ==
    /\ pc = "t_done"
    /\ iterations = MaxIterations
    /\ i = MaxIterations
    /\ Len(costs) = 2
    /\ costs[1] # costs[2]

\* C10: with zero weights and zero bias every prediction is 0.5, whatever X,
\* and the first recorded cost is ln 2 (to within rounding) for every
\* dataset and 0/1 labelling.
C10_InitialCost ==
    /\ (pc = "t_loop" /\ i = 0) => \A a \in Entries(Predictions) : a = Half
    /\ (LoopEntered /\ Len(costs) >= 1) =>
          /\ costs[1] >= Ln2 - RoundingSlack
          /\ costs[1] <= Ln2 + RoundingSlack

\* a cost was recorded for two examples of different labels and non-zero
\* features
C10_Witness ==
    /\ pc = "t_done"
    /\ Len(costs) >= 1
    /\ m_train = 2
    /\ y_train.v[1][1] # y_train.v[2][1]
    /\ \E x \in Entries(X_train) : x # Zero

----------------------------------------------------------------------------
(* Properties of binarize *)

\* the calls after call k that were given the object that call k returned
LaterCalls(k) == {l \in (k + 1)..Len(calls) : calls[l].given = calls[k].returned}

\* the contents of the object that call k returned, as that call left them
ResultOf(k) ==
    IF LaterCalls(k) = {} THEN heap[calls[k].returned]
    ELSE calls[CHOOSE l \in LaterCalls(k) : \A o \in LaterCalls(k) : l <= o].before

\* C11: for a 1 x m probability matrix A the result of binarize has the
\* shape of A, its entry j is 1 if A[0,j] > 0.5 and 0 otherwise, an entry
\* exactly 0.5 gives 0, and every entry of the result is 0 or 1.
C11_BinarizeThreshold ==
    \A k \in 1..Len(calls) :
        LET given == calls[k].before
            result == ResultOf(k)
        IN  /\ result.r = given.r
            /\ result.c = given.c
            /\ \A q \in 1..given.c :
                  /\ (~isnan(given.v[1][q]) /\ given.v[1][q] > Half) => result.v[1][q] = One
                  /\ (isnan(given.v[1][q]) \/ given.v[1][q] <= Half) => result.v[1][q] = Zero
                  /\ given.v[1][q] = Half => result.v[1][q] = Zero
                  /\ result.v[1][q] \in {Zero, One}

\* a matrix holding 0.5 and its two neighbours was binarized to 0, 1, 0
C11_Witness ==
    /\ pc = "b_call"
    /\ Len(calls) = 1
    /\ calls[1].before.c = 3
    /\ calls[1].before.v[1] = <<Half, Half + 1, Half - 1>>
    /\ ResultOf(1).v[1] = <<Zero, One, Zero>>

\* C12: binarize is idempotent; binarize(binarize(A)) equals binarize(A)
\* for every 1 x m matrix A.
C12_BinarizeIdempotent ==
    pc = "b_call" =>
        \A k \in 2..Len(calls) :
            /\ calls[k].given = calls[k - 1].returned
            /\ calls[k].before = ResultOf(k - 1)
            /\ ResultOf(k) = ResultOf(k - 1)

\* binarize was applied twice; the first application changed the matrix and
\* left both a 0 and a 1
C12_Witness ==
    /\ pc = "b_call"
    /\ Len(calls) = 2
    /\ calls[1].before # calls[2].before
    /\ {Zero, One} \subseteq Entries(ResultOf(2))

\* a 1 x m matrix with every entry replaced by 1 if it exceeds 0.5, else 0
Thresholded(M) ==
    [M EXCEPT !.v[1] = [q \in 1..M.c |->
                          IF ~isnan(M.v[1][q]) /\ M.v[1][q] > Half THEN One ELSE Zero]]

\* the calls of binarize made by the step
NewCalls == (Len(calls) + 1)..Len(calls')

\* C13: binarize works in place.  When binarize(A) returns, the caller's
\* matrix itself holds the binarized values and the matrix returned is that
\* same object, not a copy; the evaluation cell applies binarize only to the
\* arrays that predict has just made, and leaves W, b, X_train, X_test,
\* y_train and y_test as they were.
C13_BinarizeInPlace ==
    [][/\ \A k \in NewCalls :
             /\ calls'[k].returned = calls'[k].given
             /\ heap'[calls'[k].given] = Thresholded(calls'[k].before)
       /\ (pc = "b_call" /\ calls = <<>> /\ calls' # <<>>) =>
             /\ calls'[1].given = caller_A
             /\ calls'[1].before = heap[caller_A]
             /\ heap'[caller_A] = Thresholded(heap[caller_A])
             /\ Len(heap') = Len(heap)
       /\ (pc = "t_loop" /\ pc' = "t_done") =>
             /\ NewCalls # {}
             /\ \A k \in NewCalls : calls'[k].given > Len(NotebookArrays)
             /\ W' = W /\ b' = b
             /\ X_train' = X_train /\ X_test' = X_test
             /\ y_train' = y_train /\ y_test' = y_test]_vars

\* the evaluation cell ran after training: binarize was handed a test
\* prediction that was neither 0 nor 1, that same object now holds a 1 and is
\* what y_test_predictions names, and the trained weights are not zero
C13_Witness ==
    /\ pc = "t_done"
    /\ Len(calls) = 2
    /\ m_train >= 1 /\ m_test >= 1
    /\ calls[2].returned = calls[2].given
    /\ \E q \in 1..m_test :
          /\ calls[2].before.v[1][q] \notin {Zero, One}
          /\ heap[calls[2].given].v[1][q] = One
    /\ y_test_predictions = heap[calls[2].given]
    /\ W # zeros(n, 1)

====
